---- MODULE Spec2Model ----
(***************************************************************************)
(* Model of todo.py, a command line task manager.                          *)
(*                                                                         *)
(* Every run of the program loads the pickled task list, performs one      *)
(* method of class Tasks and pickles the list again.  The module has two   *)
(* specifications over the same state:                                     *)
(*   Spec      every step is one run that calls one method of Tasks with   *)
(*             arguments of the method's own domain (the class used as a   *)
(*             library, in main's load / call / pickle lifecycle);         *)
(*   MainSpec  every step is one run of main() on a parsed command line.   *)
(*                                                                         *)
(* Python values are encoded as follows.                                   *)
(*   str            a sequence of code points, "Ab" is <<65, 98>>          *)
(*   Optional[x]    << >> for None, <<x>> for a value                      *)
(*   datetime       a natural number read from the clock `now`             *)
(*   uuid.UUID      a natural number; uuid4() draws the next unused one    *)
(*   an id string   [form, of]: "full" is str(u) of the UUID u, "short"    *)
(*                  is str(u)[:8], "empty" is ""                           *)
(* The Age column of the printed tables (and the field `created` it is     *)
(* computed from) is left out: no operation reads it back.                 *)
(***************************************************************************)
EXTENDS Integers, Sequences, FiniteSets, TLC

\* Number of uuid4() draws a behaviour may contain.
MaxId == 2
\* Largest value the clock reaches.
MaxTime == 1

VARIABLES
    tasks,    \* self.tasks of the Tasks object of the latest run
    file,     \* the file .todo.pickle
    now,      \* the clock behind datetime.now()
    nextId,   \* the next value uuid4() returns
    last,     \* what the latest run did: method, arguments, message, exit
    out,      \* the table rows the latest run printed
    cli       \* the command line of the latest run of main()

vars == <<tasks, file, now, nextId, last, out, cli>>

----------------------------------------------------------------------------
(* Values *)

None == << >>
Some(x) == <<x>>

PyStr(s) == [type |-> "str", s |-> s, i |-> 0]
PyInt(i) == [type |-> "int", s |-> << >>, i |-> i]

\* bool(v) of a str or an int
Truthy(v) == IF v.type = "str" THEN v.s # << >> ELSE v.i # 0

\* isinstance(v, str)
IsStr(v) == v.type = "str"

Full(u) == [form |-> "full", of |-> u]
Short(u) == [form |-> "short", of |-> u]
EmptyId == [form |-> "empty", of |-> 0]

\* str(task.unique_id)
UuidStr(u) == Full(u)

\* uuid.UUID(s): only the full 32 digit form parses, anything else raises
\* ValueError
UUIDParse(s) == [ok |-> s.form = "full", uuid |-> s.of]

\* str.lower() on the code points of A..Z
LowerChar(c) == IF c \in 65..90 THEN c + 32 ELSE c
Lower(s) == [k \in 1..Len(s) |-> LowerChar(s[k])]

\* a in b, for two str
IsSubstring(a, b) ==
    \E k \in 0..(Len(b) - Len(a)) : SubSeq(b, k + 1, k + Len(a)) = a

\* a < b, for two str: code point by code point, a proper prefix is smaller
RECURSIVE StrLess(_, _)
StrLess(a, b) ==
    IF b = << >> THEN FALSE
    ELSE IF a = << >> THEN TRUE
    ELSE IF a[1] # b[1] THEN a[1] < b[1]
    ELSE StrLess(Tail(a), Tail(b))

----------------------------------------------------------------------------
(* class Task *)

Task(name, priority, due_date, uid) ==
    [unique_id |-> uid, name |-> name, priority |-> priority,
     due_date |-> due_date, completed |-> None]

\* a completed_task that flips the state: a second call reopens the task
completed_task_Toggle(task, t) ==
    [task EXCEPT !.completed = IF task.completed = None THEN Some(t) ELSE None]

completed_task(task, t) == [task EXCEPT !.completed = Some(t)]

----------------------------------------------------------------------------
(* class Tasks *)

NoFile == [exists |-> FALSE, data |-> << >>]

\* Tasks.__init__: a missing file gives the empty list
Load(f) == IF f.exists THEN f.data ELSE << >>

\* Tasks.pickle_tasks
pickle_tasks(ts) == [exists |-> TRUE, data |-> ts]

\* key(a) < key(b) for key = (x.due_date is None, x.due_date, x.priority);
\* tuples compare at the first position where they differ
KeyLess(a, b) ==
    IF (a.due_date = None) # (b.due_date = None) THEN b.due_date = None
    ELSE IF a.due_date # b.due_date THEN StrLess(a.due_date[1], b.due_date[1])
    ELSE a.priority < b.priority

\* x placed before the first element whose key is greater
RECURSIVE InsertSorted(_, _)
InsertSorted(x, s) ==
    IF s = << >> THEN <<x>>
    ELSE IF KeyLess(x, s[Len(s)]) THEN
        Append(InsertSorted(x, SubSeq(s, 1, Len(s) - 1)), s[Len(s)])
    ELSE Append(s, x)

\* list.sort(key=...): stable
RECURSIVE Sorted(_)
Sorted(ts) ==
    IF ts = << >> THEN << >>
    ELSE InsertSorted(ts[Len(ts)], Sorted(SubSeq(ts, 1, Len(ts) - 1)))

\* a filter that keeps the completed tasks as well
Uncompleted_KeepsDone(ts) == ts

Uncompleted(ts) == SelectSeq(ts, LAMBDA t : t.completed = None)

Dash == <<45>>

DueColumn(t) ==
    IF t.due_date # None /\ t.due_date[1] # << >> THEN t.due_date[1] ELSE Dash

\* the rows Tasks.print_tasks prints below the two header lines
print_tasks(ts) ==
    [k \in 1..Len(ts) |->
        [short_id |-> Short(ts[k].unique_id), due |-> DueColumn(ts[k]),
         priority |-> ts[k].priority, name |-> ts[k].name]]

\* Tasks.list
ListRows(ts) == print_tasks(Sorted(Uncompleted(ts)))

\* Tasks.report: the list is sorted in place, every task gets a row
ReportTasks(ts) == Sorted(ts)

\* `if task.completed:` holds for every datetime
CompletedColumn(t) ==
    IF t.completed # None THEN [dash |-> FALSE, at |-> t.completed]
    ELSE [dash |-> TRUE, at |-> None]

ReportRows(ts) ==
    [k \in 1..Len(ts) |->
        [short_id |-> Short(ts[k].unique_id), due |-> DueColumn(ts[k]),
         priority |-> ts[k].priority, name |-> ts[k].name,
         completed |-> CompletedColumn(ts[k])]]

\* Tasks.done: the loop parses unique_id once per task it visits, so a
\* string that is no UUID raises ValueError as soon as there is a first task
RECURSIVE DoneFrom(_, _, _, _)
DoneFrom(ts, k, unique_id, t) ==
    IF k > Len(ts) THEN
        [tasks |-> ts, msg |-> "No task found", raised |-> FALSE]
    ELSE IF ~UUIDParse(unique_id).ok THEN
        [tasks |-> ts, msg |-> "", raised |-> TRUE]
    ELSE IF ts[k].unique_id = UUIDParse(unique_id).uuid THEN
        [tasks |-> [ts EXCEPT ![k] = completed_task(ts[k], t)],
         msg |-> "Completed task", raised |-> FALSE]
    ELSE DoneFrom(ts, k + 1, unique_id, t)

done(ts, unique_id, t) == DoneFrom(ts, 1, unique_id, t)

\* list.pop() in the place of list.remove(x): the last element goes
Remove_Last(ts, x) == SubSeq(ts, 1, Len(ts) - 1)

\* list.remove(x): the first element equal to x goes
RECURSIVE Remove(_, _)
Remove(ts, x) ==
    IF ts = << >> THEN << >>
    ELSE IF ts[1] = x THEN Tail(ts)
    ELSE <<ts[1]>> \o Remove(Tail(ts), x)

\* Tasks.delete
RECURSIVE DeleteFrom(_, _, _)
DeleteFrom(ts, k, unique_id) ==
    IF k > Len(ts) THEN
        [tasks |-> ts, msg |-> "No task found", raised |-> FALSE]
    ELSE IF ~UUIDParse(unique_id).ok THEN
        [tasks |-> ts, msg |-> "", raised |-> TRUE]
    ELSE IF ts[k].unique_id = UUIDParse(unique_id).uuid THEN
        [tasks |-> Remove(ts, ts[k]), msg |-> "Deleted task", raised |-> FALSE]
    ELSE DeleteFrom(ts, k + 1, unique_id)

delete(ts, unique_id) == DeleteFrom(ts, 1, unique_id)

\* an inner loop that stops at the first term found
TermMatches_Once(task, terms) ==
    IF \E n \in DOMAIN terms : IsSubstring(Lower(terms[n]), Lower(task.name))
    THEN <<task>> ELSE << >>

\* the inner loop of Tasks.query: one append per term found in the name
RECURSIVE TermMatches(_, _)
TermMatches(task, terms) ==
    IF terms = << >> THEN << >>
    ELSE (IF IsSubstring(Lower(terms[1]), Lower(task.name)) THEN <<task>>
          ELSE << >>) \o TermMatches(task, Tail(terms))

\* the outer loop of Tasks.query
RECURSIVE QueryMatches(_, _)
QueryMatches(ts, terms) ==
    IF ts = << >> THEN << >>
    ELSE TermMatches(ts[1], terms) \o QueryMatches(Tail(ts), terms)

\* Tasks.query
QueryRows(ts, terms) ==
    print_tasks(QueryMatches(Sorted(Uncompleted(ts)), terms))

\* an add without the check of the name
add_Unchecked(ts, name, priority, due_date, uid) ==
    [tasks |-> Append(ts, Task(name.s, priority, due_date, uid)),
     msg |-> "Created task", raised |-> FALSE]

\* Tasks.add
add(ts, name, priority, due_date, uid) ==
    IF ~Truthy(name) \/ ~IsStr(name) THEN
        [tasks |-> ts, msg |-> "There was an error in creating your task",
         raised |-> FALSE]
    ELSE
        [tasks |-> Append(ts, Task(name.s, priority, due_date, uid)),
         msg |-> "Created task", raised |-> FALSE]

----------------------------------------------------------------------------
(* Inputs *)

\* "01/12/2025" and "02/01/2024", the dd/MM/YYYY format of --due
Due1 == <<48, 49, 47, 49, 50, 47, 50, 48, 50, 53>>
Due2 == <<48, 50, 47, 48, 49, 47, 50, 48, 50, 52>>

\* "Ab" and "c"
NameAb == <<65, 98>>
NameC == <<99>>

AddInputs ==
    { [name |-> PyStr(NameAb), priority |-> 1, due_date |-> None],
      [name |-> PyStr(NameC), priority |-> 2, due_date |-> Some(Due1)],
      [name |-> PyStr(NameAb), priority |-> 2, due_date |-> Some(Due2)],
      [name |-> PyStr(NameC), priority |-> 1, due_date |-> Some(Due2)],
      [name |-> PyStr(<< >>), priority |-> 1, due_date |-> None],
      [name |-> PyInt(5), priority |-> 1, due_date |-> None] }

\* ["a", "B"] and ["b", "C"]
TermInputs == { << <<97>>, <<66>> >>, << <<98>>, <<67>> >> }

\* id strings: the full id of every UUID uuid4() can draw (an id is unknown
\* before it is drawn and after its task is deleted) and the short id the
\* tables display for the first task
IdInputs == {Full(u) : u \in 1..MaxId} \cup {Short(1)}

----------------------------------------------------------------------------
(* One run: load, one call, pickle, exit *)

NoCli == [supplied |-> {}]

\* no run has been made since the clock last moved
Idle == [op |-> "idle", id |-> None, name |-> None, terms |-> << >>,
         msg |-> "", raised |-> FALSE, saved |-> FALSE, exit |-> 0]

Init ==
    /\ tasks = << >>
    /\ file = NoFile
    /\ now = 0
    /\ nextId = 1
    /\ last = Idle
    /\ out = << >>
    /\ cli = NoCli

\* What main does around the call: the list the call left is pickled and
\* the process exits with status 0; an exception that escapes the call ends
\* the process with status 1 before pickle_tasks
Finish(op, id, name, terms, res, rows) ==
    /\ tasks' = res.tasks
    /\ file' = IF res.raised THEN file ELSE pickle_tasks(res.tasks)
    /\ out' = rows
    /\ last' = [op |-> op, id |-> id, name |-> name, terms |-> terms,
                msg |-> res.msg, raised |-> res.raised,
                saved |-> ~res.raised,
                exit |-> IF res.raised THEN 1 ELSE 0]

Printed(ts) == [tasks |-> ts, msg |-> "", raised |-> FALSE]

Add(in) ==
    /\ nextId <= MaxId
    /\ LET res == add(Load(file), in.name, in.priority, in.due_date, nextId)
       IN /\ Finish("add", None, Some(in.name), << >>, res, << >>)
          /\ nextId' = IF res.msg = "Created task" THEN nextId + 1 ELSE nextId
    /\ UNCHANGED <<now, cli>>

List ==
    /\ Finish("list", None, None, << >>, Printed(Load(file)),
              ListRows(Load(file)))
    /\ UNCHANGED <<now, nextId, cli>>

Query(terms) ==
    /\ Finish("query", None, None, terms, Printed(Load(file)),
              QueryRows(Load(file), terms))
    /\ UNCHANGED <<now, nextId, cli>>

Done(unique_id) ==
    /\ Finish("done", Some(unique_id), None, << >>,
              done(Load(file), unique_id, now), << >>)
    /\ UNCHANGED <<now, nextId, cli>>

Delete(unique_id) ==
    /\ Finish("delete", Some(unique_id), None, << >>,
              delete(Load(file), unique_id), << >>)
    /\ UNCHANGED <<now, nextId, cli>>

Report ==
    /\ Finish("report", None, None, << >>, Printed(ReportTasks(Load(file))),
              ReportRows(ReportTasks(Load(file))))
    /\ UNCHANGED <<now, nextId, cli>>

\* time passes between two runs
Tick ==
    /\ now < MaxTime
    /\ now' = now + 1
    /\ last' = Idle
    /\ out' = << >>
    /\ cli' = NoCli
    /\ UNCHANGED <<tasks, file, nextId>>

Next ==
    \/ \E in \in AddInputs : Add(in)
    \/ List
    \/ \E terms \in TermInputs : Query(terms)
    \/ \E unique_id \in IdInputs : Done(unique_id)
    \/ \E unique_id \in IdInputs : Delete(unique_id)
    \/ Report
    \/ Tick

Spec == Init /\ [][Next]_vars

----------------------------------------------------------------------------
(* main() on a parsed command line *)

\* the Namespace parse_args returns: --add, --done and --delete are one
\* str each, --query is one or more str, --list and --report are switches,
\* --priority is an int that defaults to 1, --due is a str
MainArgs ==
    [add : {None, Some(<< >>), Some(NameC)},
     priority : {1},
     due : {None, Some(Due2)},
     list : BOOLEAN,
     query : {None, Some(<< <<67>> >>)},
     done : {None, Some(EmptyId), Some(Full(1)), Some(Short(1))},
     delete : {None, Some(Full(1))},
     report : BOOLEAN]

\* the action flags present on the command line
Supplied(args) ==
    {f \in {"add", "query", "done", "delete"} : args[f] # None}
        \cup {f \in {"list", "report"} : args[f]}

\* bool(x) of an Optional[str] option: None and "" are false
OptionSet(x, empty) == x # None /\ x[1] # empty

\* the command lines tried: at most two action flags at once
CommandLines == {args \in MainArgs : Cardinality(Supplied(args)) <= 2}

\* the if / elif chain of main
Branch(args) ==
    IF OptionSet(args.add, << >>) THEN "add"
    ELSE IF args.list THEN "list"
    ELSE IF args.query # None THEN "query"
    ELSE IF OptionSet(args.done, EmptyId) THEN "done"
    ELSE IF OptionSet(args.delete, EmptyId) THEN "delete"
    ELSE IF args.report THEN "report"
    ELSE "none"

Main(args) ==
    LET op == Branch(args)
        ts == Load(file)
        res == CASE op = "add" ->
                      add(ts, PyStr(args.add[1]), args.priority, args.due,
                          nextId)
                 [] op = "done" -> done(ts, args.done[1], now)
                 [] op = "delete" -> delete(ts, args.delete[1])
                 [] op = "report" -> Printed(ReportTasks(ts))
                 [] OTHER -> Printed(ts)
        rows == CASE op = "list" -> ListRows(ts)
                  [] op = "query" -> QueryRows(ts, args.query[1])
                  [] op = "report" -> ReportRows(ReportTasks(ts))
                  [] OTHER -> << >>
    IN /\ op = "add" => nextId <= MaxId
       /\ Finish(op,
                 CASE op = "done" -> args.done
                   [] op = "delete" -> args.delete
                   [] OTHER -> None,
                 IF op = "add" THEN Some(PyStr(args.add[1])) ELSE None,
                 IF op = "query" THEN args.query[1] ELSE << >>,
                 res, rows)
       /\ nextId' = IF res.msg = "Created task" THEN nextId + 1 ELSE nextId
       /\ cli' = [supplied |-> Supplied(args)]
       /\ UNCHANGED now

MainNext ==
    \/ \E args \in CommandLines : Main(args)
    \/ Tick

MainSpec == Init /\ [][MainNext]_vars

----------------------------------------------------------------------------
(* Properties *)

Range(s) == {s[k] : k \in DOMAIN s}
Ids(ts) == {ts[k].unique_id : k \in DOMAIN ts}

ErrorMessage == "There was an error in creating your task"

\* C1: done or delete with an id string that is the id of no task in the
\* collection, the short id and other malformed strings included, leaves
\* the collection as it was and prints "No task found".
C1_UnknownIdIsNotFound ==
    [][(/\ last'.op \in {"done", "delete"}
        /\ \A k \in DOMAIN tasks : UuidStr(tasks[k].unique_id) # last'.id[1])
       => (/\ tasks' = tasks
           /\ Load(file') = tasks
           /\ last'.msg = "No task found")]_vars

\* C2: every run of main, whatever its action did, pickles the collection
\* it holds and exits with status 0.
C2_MainAlwaysSavesAndExitsZero ==
    last.op # "idle" =>
        /\ last.saved
        /\ last.exit = 0
        /\ file = pickle_tasks(tasks)

Digit(c) == c - 48
DateOrdinal(s) ==
    (Digit(s[7]) * 1000 + Digit(s[8]) * 100 + Digit(s[9]) * 10 + Digit(s[10]))
        * 10000
    + (Digit(s[4]) * 10 + Digit(s[5])) * 100
    + (Digit(s[1]) * 10 + Digit(s[2]))

\* C5: the rows list() prints have the tasks with a due date before the
\* tasks without one, an earlier due date before a later one, and among
\* equal due dates the smaller priority value first.
C5_ListOrderedByDueDate ==
    last.op = "list" =>
        \A i, j \in DOMAIN out :
            i < j =>
                /\ out[j].due # Dash => out[i].due # Dash
                /\ (out[i].due # Dash /\ out[j].due # Dash)
                   => DateOrdinal(out[i].due) <= DateOrdinal(out[j].due)
                /\ out[i].due = out[j].due
                   => out[i].priority <= out[j].priority

\* the first action flag of the command line in the order of precedence
First(flags) ==
    IF "add" \in flags THEN "add"
    ELSE IF "list" \in flags THEN "list"
    ELSE IF "query" \in flags THEN "query"
    ELSE IF "done" \in flags THEN "done"
    ELSE IF "delete" \in flags THEN "delete"
    ELSE IF "report" \in flags THEN "report"
    ELSE "none"

\* C6: the action a run of main executes is the first supplied flag in the
\* precedence add, list, query, done, delete, report; a flag of lower
\* precedence is never executed, whatever text --add was given.
C6_OnlyFirstFlagExecuted ==
    last.op \notin {"idle", "none"} => last.op = First(cli.supplied)

\* C7: add with an empty name, or a name that is no str, prints the error
\* message and leaves the collection and what is persisted as they were;
\* add with a non-empty name appends one new open task at the end.
C7_AddValidatesName ==
    [][last'.op = "add" =>
        IF last'.name[1].type # "str" \/ last'.name[1].s = << >> THEN
            /\ tasks' = tasks
            /\ Load(file') = Load(file)
            /\ last'.msg = ErrorMessage
        ELSE
            /\ last'.msg = "Created task"
            /\ Len(tasks') = Len(tasks) + 1
            /\ SubSeq(tasks', 1, Len(tasks)) = tasks
            /\ tasks'[Len(tasks')].completed = None
            /\ tasks'[Len(tasks')].name = last'.name[1].s
            /\ tasks'[Len(tasks')].unique_id \notin Ids(tasks)
            /\ Load(file') = tasks']_vars

\* an add was rejected while the collection holds a task added before
C7_Witness ==
    /\ last.op = "add"
    /\ last.msg = ErrorMessage
    /\ tasks # << >>
    /\ file = pickle_tasks(tasks)

SameTask(a, b) == a.unique_id = b.unique_id

\* C8: once a task has a completion time, no later operation changes that
\* time or clears it.
C8_CompletedSetOnce ==
    [][\A k \in DOMAIN tasks : \A j \in DOMAIN tasks' :
        (SameTask(tasks[k], tasks'[j]) /\ tasks[k].completed # None)
        => tasks'[j].completed = tasks[k].completed]_vars

\* C8 as amended: a completion time is never cleared, and it changes only
\* when done is called again with the id of that task, which overwrites it
\* with the time of the call.
C8_CompletedOnlyOverwrittenByDone ==
    [][\A k \in DOMAIN tasks : \A j \in DOMAIN tasks' :
        (SameTask(tasks[k], tasks'[j]) /\ tasks[k].completed # None)
        => (/\ tasks'[j].completed # None
            /\ tasks'[j].completed # tasks[k].completed
               => (/\ last'.op = "done"
                   /\ last'.id = Some(UuidStr(tasks[k].unique_id))
                   /\ tasks'[j].completed = Some(now)))]_vars

\* a task completed at an earlier time is done again by id at a later time
C8_Witness ==
    /\ now > 0
    /\ last.op = "done"
    /\ last.msg = "Completed task"
    /\ \E k \in DOMAIN tasks :
          /\ last.id = Some(UuidStr(tasks[k].unique_id))
          /\ tasks[k].completed = Some(now)
    /\ \E j \in DOMAIN tasks :
          tasks[j].completed # None /\ tasks[j].completed # Some(now)

\* the tasks of s that are still in t are in t in the order they have in s
KeepsOrder(s, t) ==
    \A a, b \in DOMAIN s : \A c, d \in DOMAIN t :
        (a < b /\ SameTask(s[a], t[c]) /\ SameTask(s[b], t[d])) => c < d

\* C9: the stored collection, in memory and in the file, keeps the tasks in
\* the order they were added: no run changes the order of the tasks that
\* stay, and list, query and report change nothing that is stored.
C9_StoredOrderIsInsertionOrder ==
    [][/\ KeepsOrder(tasks, tasks')
       /\ KeepsOrder(Load(file), Load(file'))
       /\ last'.op \in {"list", "query", "report"}
          => (tasks' = tasks /\ Load(file') = Load(file))]_vars

\* the number of terms found in a name, case ignored
Hits(name, terms) ==
    Cardinality({n \in DOMAIN terms :
                    IsSubstring(Lower(terms[n]), Lower(name))})

\* C10: query(terms) prints open tasks only, in the order of list(), one
\* row per term that is in the name ignoring case, and stores nothing.
C10_QueryRowsPerMatchingTerm ==
    [][last'.op = "query" =>
        LET listed == ListRows(tasks)
        IN /\ tasks' = tasks
           /\ Load(file') = tasks
           /\ \A r \in Range(out') :
                \E k \in DOMAIN tasks :
                    /\ Short(tasks[k].unique_id) = r.short_id
                    /\ tasks[k].completed = None
           /\ \A n \in DOMAIN listed :
                Cardinality({m \in DOMAIN out' : out'[m] = listed[n]})
                    = Hits(listed[n].name, last'.terms)
           /\ \A m, n \in DOMAIN out' :
                m < n =>
                    \E a, b \in DOMAIN listed :
                        /\ listed[a] = out'[m]
                        /\ listed[b] = out'[n]
                        /\ a <= b]_vars

\* a query printed a task twice and left out a done task whose name holds
\* a term
C10_Witness ==
    /\ last.op = "query"
    /\ \E m \in DOMAIN out : m + 1 \in DOMAIN out /\ out[m] = out[m + 1]
    /\ \E k \in DOMAIN tasks :
          /\ tasks[k].completed # None
          /\ Hits(tasks[k].name, last.terms) > 0

====
